---- MODULE Spec2Model ----
(***************************************************************************)
(* Poker hand evaluation of babetCode/playground.                          *)
(*                                                                         *)
(*   poker/old/pypoker/v0.1/poker.py   Deck, evaluate_hand,                *)
(*                                     texas_holdem_score                  *)
(*   poker/py/v2/pokercombos.py        Deck, evaluate_hand (tuple keys),   *)
(*                                     the module-level ranking loop       *)
(*                                                                         *)
(* A card is the pair <<rank, suit>> (Python's (rank, suit) tuple, so      *)
(* card[1] here is card[0] there).  A Python list is a sequence.  A call   *)
(* that raises is a result whose exc field names the exception.            *)
(***************************************************************************)
EXTENDS Integers, Sequences, FiniteSets, TLC

VARIABLES
    hand, callee, result,               \* a classification call and what it gave
    seven_cards, score,                 \* a texas_holdem_score call
    cards, dealt_cards, deck_ret,       \* the Deck object and its last call
    pc, hand_evaluations, i, current_rank, prev_evaluation, df_data
                                        \* pokercombos.py's script

evalVars == <<hand, callee, result>>
holdemVars == <<seven_cards, score>>
deckVars == <<cards, dealt_cards, deck_ret>>
rankVars ==
    <<pc, hand_evaluations, i, current_rank, prev_evaluation, df_data>>
vars == <<evalVars, holdemVars, deckVars, rankVars>>

(***************************************************************************)
(* Python built-ins the code uses.                                         *)
(***************************************************************************)
SetOf(s) == {s[k] : k \in DOMAIN s}

MaxOf(S) == CHOOSE x \in S : \A y \in S : y <= x

MinOf(S) == CHOOSE x \in S : \A y \in S : x <= y

Count(s, x) == Cardinality({k \in DOMAIN s : s[k] = x})

Reverse(s) == [k \in 1..Len(s) |-> s[Len(s) + 1 - k]]

Prefix(s, n) == SubSeq(s, 1, IF n < Len(s) THEN n ELSE Len(s))

Negated(s) == [k \in 1..Len(s) |-> 0 - s[k]]

RECURSIVE InsertDesc(_, _)
InsertDesc(x, s) ==
    IF s = <<>> THEN <<x>>
    ELSE IF x >= Head(s) THEN <<x>> \o s
    ELSE <<Head(s)>> \o InsertDesc(x, Tail(s))

\* sorted(xs, reverse=True) of a list of integers
RECURSIVE sorted_desc(_)
sorted_desc(s) ==
    IF s = <<>> THEN <<>> ELSE InsertDesc(Head(s), sorted_desc(Tail(s)))

\* sorted(xs) of a list of integers
sorted_asc(s) == Reverse(sorted_desc(s))

\* a < b for two Python lists or tuples of integers
RECURSIVE ListLess(_, _)
ListLess(a, b) ==
    IF b = <<>> THEN FALSE
    ELSE IF a = <<>> THEN TRUE
    ELSE IF Head(a) # Head(b) THEN Head(a) < Head(b)
    ELSE ListLess(Tail(a), Tail(b))

\* collections.Counter(xs).items(): <<key, count>> in order of first occurrence
RECURSIVE CounterFrom(_, _)
CounterFrom(s, k) ==
    IF k > Len(s) THEN <<>>
    ELSE IF \E j \in 1..(k - 1) : s[j] = s[k] THEN CounterFrom(s, k + 1)
    ELSE << <<s[k], Count(s, s[k])>> >> \o CounterFrom(s, k + 1)

Counter(s) == CounterFrom(s, 1)

\* itertools.combinations(s, k), as a list in the order it yields
RECURSIVE combinations(_, _)
combinations(s, k) ==
    IF k = 0 THEN << <<>> >>
    ELSE IF Len(s) < k THEN <<>>
    ELSE LET with == combinations(Tail(s), k - 1)
         IN [j \in 1..Len(with) |-> <<Head(s)>> \o with[j]]
            \o combinations(Tail(s), k)

RanksOf(cs) == [k \in 1..Len(cs) |-> cs[k][1]]

SuitsOf(cs) == [k \in 1..Len(cs) |-> cs[k][2]]

(***************************************************************************)
(* poker.py: evaluate_hand                                                 *)
(***************************************************************************)
Returned(t, r, c) ==
    [exc |-> "none", hand_type |-> t, hand_rank |-> r, best_cards |-> c]

Raised(e) == [exc |-> e, hand_type |-> "", hand_rank |-> 0, best_cards |-> <<>>]

\* next(r for r, c in rank_counts.items() if c == n); the caller has checked
\* that n is among the counts
FirstWithCount(rank_counts, n) ==
    rank_counts[CHOOSE k \in DOMAIN rank_counts :
                   /\ rank_counts[k][2] = n
                   /\ \A j \in 1..(k - 1) : rank_counts[j][2] # n][1]

evaluate_hand(cs) ==
    LET rks == sorted_desc(RanksOf(cs))
        rank_counts == Counter(rks)
        values == {rank_counts[k][2] : k \in DOMAIN rank_counts}
        is_flush == Cardinality(SetOf(SuitsOf(cs))) = 1
        is_straight ==
            /\ Cardinality(SetOf(rks)) = 5
            /\ \/ MaxOf(SetOf(rks)) - MinOf(SetOf(rks)) = 4
               \/ rks = <<14, 5, 4, 3, 2>>
    IN  IF is_flush /\ rks = <<14, 13, 12, 11, 10>> THEN Returned("RF", 10, cs)
        ELSE IF is_flush /\ is_straight THEN Returned("SF", 9, cs)
        ELSE IF 4 \in values THEN
            LET four_rank == FirstWithCount(rank_counts, 4)
                others == {r \in SetOf(rks) : r # four_rank}
            IN  IF others = {} THEN Raised("ValueError")  \* max() of nothing
                ELSE LET kicker == MaxOf(others)
                         Keep(c) == c[1] = four_rank \/ c[1] = kicker
                     IN  Returned("4k", 8, SelectSeq(cs, Keep))
        ELSE IF 3 \in values /\ 2 \in values THEN
            LET three_rank == FirstWithCount(rank_counts, 3)
                pair_rank == FirstWithCount(rank_counts, 2)
                Keep(c) == c[1] \in {three_rank, pair_rank}
            IN  Returned("FH", 7, SelectSeq(cs, Keep))
        ELSE IF is_flush THEN Returned("FL", 6, cs)
        ELSE IF is_straight THEN Returned("ST", 5, cs)
        ELSE IF 3 \in values THEN
            LET three_rank == FirstWithCount(rank_counts, 3)
                NotThree(r) == r # three_rank
                kickers == Prefix(SelectSeq(rks, NotThree), 2)
                Keep(c) == c[1] = three_rank \/ c[1] \in SetOf(kickers)
            IN  Returned("3K", 4, SelectSeq(cs, Keep))
        ELSE IF Cardinality({k \in DOMAIN rank_counts : rank_counts[k][2] = 2}) >= 2 THEN
            LET IsPair(r) == Count(rks, r) = 2
                pair_ranks ==
                    Prefix(sorted_desc(SelectSeq(RanksOf(rank_counts), IsPair)), 2)
                others == {r \in SetOf(rks) : r \notin SetOf(pair_ranks)}
            IN  IF others = {} THEN Raised("ValueError")  \* max() of nothing
                ELSE LET kicker == MaxOf(others)
                         Keep(c) == c[1] \in SetOf(pair_ranks) \/ c[1] = kicker
                     IN  Returned("2P", 3, SelectSeq(cs, Keep))
        ELSE IF 2 \in values THEN
            LET pair_rank == FirstWithCount(rank_counts, 2)
                NotPair(r) == r # pair_rank
                kickers == Prefix(SelectSeq(rks, NotPair), 3)
                Keep(c) == c[1] = pair_rank \/ c[1] \in SetOf(kickers)
            IN  Returned("PR", 2, SelectSeq(cs, Keep))
        ELSE Returned("HC", 1, cs)

(***************************************************************************)
(* poker.py: texas_holdem_score                                            *)
(***************************************************************************)
\* faulty variant: the ranks compared the wrong way round
Replaces_Reversed(best_score, hand_rank, rks) ==
    \/ best_score[2] < hand_rank
    \/ best_score[2] = hand_rank /\ ListLess(rks, best_score[4])

\* faulty variant: a candidate of the same category always replaces
Replaces_LastWins(best_score, hand_rank, rks) == best_score[2] <= hand_rank

\* line 154: does the candidate replace best_score?
Replaces(best_score, hand_rank, rks) ==
    \/ best_score[2] < hand_rank
    \/ best_score[2] = hand_rank /\ ListLess(best_score[4], rks)

\* the for loop over the combinations: best_score is the 4-tuple of the code,
\* <<hand_type, hand_rank, best_cards, ranks>>; an exception of evaluate_hand
\* leaves the loop ("raised" in place of the tuple)
RECURSIVE ScoreLoop(_, _)
ScoreLoop(combos, best_score) ==
    IF combos = <<>> THEN best_score
    ELSE LET e == evaluate_hand(Head(combos))
             rks == sorted_desc(RanksOf(e.best_cards))
             current_score == <<e.hand_type, e.hand_rank, e.best_cards, rks>>
         IN  IF e.exc # "none" THEN <<e.exc>>
             ELSE ScoreLoop(Tail(combos),
                            IF Replaces(best_score, e.hand_rank, rks)
                            THEN current_score ELSE best_score)

\* faulty variant: only too few cards refused
NotSeven_Fewer(cs) == Len(cs) < 7

\* line 146
NotSeven(cs) == Len(cs) # 7

\* classified: how many 5-card subsets the call handed to evaluate_hand
texas_holdem_score(cs) ==
    IF NotSeven(cs)
    THEN [exc |-> "ValueError", hand_type |-> "", hand_rank |-> 0,
          best_cards |-> <<>>, classified |-> 0]
    ELSE LET combos == combinations(cs, 5)
             best_score == ScoreLoop(combos, <<"None", 0, <<>>, <<>>>>)
         IN  IF Len(best_score) = 1
             THEN [exc |-> best_score[1], hand_type |-> "", hand_rank |-> 0,
                   best_cards |-> <<>>, classified |-> Len(combos)]
             ELSE [exc |-> "none", hand_type |-> best_score[1],
                   hand_rank |-> best_score[2], best_cards |-> best_score[3],
                   classified |-> Len(combos)]

(***************************************************************************)
(* pokercombos.py: is_straight, is_flush, get_rank_counts, evaluate_hand   *)
(***************************************************************************)
\* faulty variant: the span of a straight off by one
is_straight_SpanFive(rks) ==
    /\ Cardinality(SetOf(rks)) = 5
    /\ \/ MaxOf(SetOf(rks)) - MinOf(SetOf(rks)) = 5
       \/ sorted_asc(rks) = <<2, 3, 4, 5, 14>>

is_straight(rks) ==
    /\ Cardinality(SetOf(rks)) = 5
    /\ \/ MaxOf(SetOf(rks)) - MinOf(SetOf(rks)) = 4
       \/ sorted_asc(rks) = <<2, 3, 4, 5, 14>>

is_flush(sts) == Cardinality(SetOf(sts)) = 1

\* faulty variant: the items sorted as they are, (rank, count), the key forgotten
CountRankAbove_NoKey(x, y) == x[1] > y[1] \/ (x[1] = y[1] /\ x[2] > y[2])

\* (count, rank) of x above (count, rank) of y: the sort key of line 80
CountRankAbove(x, y) == x[2] > y[2] \/ (x[2] = y[2] /\ x[1] > y[1])

RECURSIVE InsertByCount(_, _)
InsertByCount(x, s) ==
    IF s = <<>> THEN <<x>>
    ELSE IF CountRankAbove(x, Head(s)) THEN <<x>> \o s
    ELSE <<Head(s)>> \o InsertByCount(x, Tail(s))

RECURSIVE SortByCount(_)
SortByCount(s) ==
    IF s = <<>> THEN <<>> ELSE InsertByCount(Head(s), SortByCount(Tail(s)))

\* <<rank, count>> pairs, by count descending and then rank descending
get_rank_counts(rks) == SortByCount(Counter(rks))

\* faulty variant: the ace of the wheel counted high
straight_high_AceHigh(rks) == MaxOf(SetOf(rks))

\* lines 97-102: the high card of a straight, the wheel A-2-3-4-5 being 5-high
straight_high(rks) ==
    IF sorted_asc(rks) = <<2, 3, 4, 5, 14>> THEN 5 ELSE MaxOf(SetOf(rks))

Key(t, tiebreak) == [exc |-> "none", key |-> <<t, tiebreak>>]

IndexError == [exc |-> "IndexError", key |-> <<>>]

\* The if/elif chain of lines 105-146.  rank_counts[k] with k beyond the list
\* raises IndexError at the branch that reads it.
evaluate_hand_v2(h) ==
    LET rks == RanksOf(h)
        is_flush_hand == is_flush(SuitsOf(h))
        is_straight_hand == is_straight(rks)
        rank_counts == get_rank_counts(rks)
        n == Len(rank_counts)
    IN  IF is_straight_hand /\ is_flush_hand THEN
            IF sorted_asc(rks) = <<10, 11, 12, 13, 14>> /\ is_flush_hand
            THEN Key(0, <<>>)
            ELSE Key(1, <<0 - straight_high(rks)>>)
        ELSE IF n < 1 THEN IndexError
        ELSE IF rank_counts[1][2] = 4 THEN
            IF n < 2 THEN IndexError
            ELSE Key(2, <<0 - rank_counts[1][1], 0 - rank_counts[2][1]>>)
        ELSE IF rank_counts[1][2] = 3 /\ n < 2 THEN IndexError
        ELSE IF rank_counts[1][2] = 3 /\ rank_counts[2][2] = 2 THEN
            Key(3, <<0 - rank_counts[1][1], 0 - rank_counts[2][1]>>)
        ELSE IF is_flush_hand THEN Key(4, Negated(sorted_desc(rks)))
        ELSE IF is_straight_hand THEN Key(5, <<0 - straight_high(rks)>>)
        ELSE IF rank_counts[1][2] = 3 THEN
            IF n < 3 THEN IndexError
            ELSE LET kickers ==
                         sorted_desc(<<rank_counts[2][1], rank_counts[3][1]>>)
                 IN  Key(6, <<0 - rank_counts[1][1], 0 - kickers[1], 0 - kickers[2]>>)
        ELSE IF rank_counts[1][2] = 2 /\ n < 2 THEN IndexError
        ELSE IF rank_counts[1][2] = 2 /\ rank_counts[2][2] = 2 THEN
            IF n < 3 THEN IndexError
            ELSE LET high_pair == MaxOf({rank_counts[1][1], rank_counts[2][1]})
                     low_pair == MinOf({rank_counts[1][1], rank_counts[2][1]})
                 IN  Key(7, <<0 - high_pair, 0 - low_pair, 0 - rank_counts[3][1]>>)
        ELSE IF rank_counts[1][2] = 2 THEN
            IF n < 4 THEN IndexError
            ELSE LET kickers == sorted_desc(<<rank_counts[2][1], rank_counts[3][1],
                                              rank_counts[4][1]>>)
                 IN  Key(8, <<0 - rank_counts[1][1], 0 - kickers[1],
                              0 - kickers[2], 0 - kickers[3]>>)
        ELSE Key(9, Negated(sorted_desc(rks)))

\* evaluation tuples compared as Python compares (int, tuple) tuples
KeyLess(a, b) == a[1] < b[1] \/ (a[1] = b[1] /\ ListLess(a[2], b[2]))

\* get_hand_name's table
hand_names ==
    <<"RF", "SF", "4K", "FH", "FL", "ST", "3K", "2P", "1P", "HC">>

get_hand_name(h) ==
    LET evaluation == evaluate_hand_v2(h)
    IN  IF evaluation.exc # "none" THEN evaluation.exc
        ELSE hand_names[evaluation.key[1] + 1]

(***************************************************************************)
(* Values of the variables a specification does not use.                   *)
(***************************************************************************)
None == [exc |-> "pending"]

EvalIdle == hand = <<>> /\ callee = "none" /\ result = None

HoldemIdle == seven_cards = <<>> /\ score = None

DeckIdle == cards = <<>> /\ dealt_cards = <<>> /\ deck_ret = None

RankIdle ==
    /\ pc = "idle"
    /\ hand_evaluations = <<>>
    /\ i = 0
    /\ current_rank = 0
    /\ prev_evaluation = None
    /\ df_data = <<>>

(***************************************************************************)
(* The deck of both programs (Deck.__init__ and Deck.reset).               *)
(***************************************************************************)
deck_ranks == [k \in 1..13 |-> k + 1]

deck_suits == <<"c", "h", "s", "d">>

\* [(rank, suit) for rank in self.ranks for suit in self.suits]
full_deck ==
    [k \in 1..(Len(deck_ranks) * Len(deck_suits)) |->
        <<deck_ranks[((k - 1) \div Len(deck_suits)) + 1],
          deck_suits[((k - 1) % Len(deck_suits)) + 1]>>]

(***************************************************************************)
(* SpecEval: one call of a classifier on a list of distinct cards.         *)
(* The hands are built over the first EvalNumRanks ranks of RankPriority.  *)
(* For every non-decreasing list of 0..6 of those ranks with no rank more  *)
(* than four times there is the hand that gives the copies of a rank the   *)
(* suits c, h, s, d in turn (deck order, as itertools.combinations yields  *)
(* it), and, when the ranks are all different (so that this hand is        *)
(* single-suited), also the hand whose suits rotate.                       *)
(***************************************************************************)
EvalNumRanks == 10

RankPriority == <<14, 2, 3, 4, 5, 6, 10, 11, 12, 13, 9, 8, 7>>

EvalRanks ==
    {RankPriority[k] : k \in 1..(IF EvalNumRanks < 13 THEN EvalNumRanks ELSE 13)}

HandLens == 0..6

\* the non-decreasing rank lists of length n with ranks >= lo, as a sequence
RECURSIVE RankLists(_, _)
RankLists(n, lo) ==
    IF n = 0 THEN << <<>> >>
    ELSE IF lo > 14 THEN <<>>
    ELSE (IF lo \in EvalRanks
          THEN LET rest == RankLists(n - 1, lo)
               IN  [k \in 1..Len(rest) |-> <<lo>> \o rest[k]]
          ELSE <<>>)
         \o RankLists(n, lo + 1)

Dealable(rs) == \A r \in SetOf(rs) : Count(rs, r) <= Len(deck_suits)

Stacked(rs) ==
    [k \in 1..Len(rs) |->
        <<rs[k], deck_suits[1 + Cardinality({j \in 1..(k - 1) : rs[j] = rs[k]})]>>]

Rotating(rs) ==
    [k \in 1..Len(rs) |-> <<rs[k], deck_suits[((k - 1) % Len(deck_suits)) + 1]>>]

AllDifferent(rs) == Cardinality(SetOf(rs)) = Len(rs)

HandsOfLen(n) ==
    LET lists == SelectSeq(RankLists(n, 2), Dealable)
        different == SelectSeq(lists, AllDifferent)
    IN  [k \in 1..Len(lists) |-> Stacked(lists[k])]
        \o [k \in 1..Len(different) |-> Rotating(different[k])]

EvalInputs == UNION {SetOf(HandsOfLen(n)) : n \in HandLens}

EvalInit ==
    /\ hand \in EvalInputs
    /\ callee = "none"
    /\ result = None
    /\ HoldemIdle /\ DeckIdle /\ RankIdle

\* poker.py's evaluate_hand(hand)
CallEvaluateHand ==
    /\ callee = "none"
    /\ callee' = "poker.evaluate_hand"
    /\ result' = evaluate_hand(hand)
    /\ UNCHANGED <<hand, holdemVars, deckVars, rankVars>>

\* pokercombos.py's evaluate_hand(hand)
CallEvaluateHandV2 ==
    /\ callee = "none"
    /\ callee' = "pokercombos.evaluate_hand"
    /\ result' = evaluate_hand_v2(hand)
    /\ UNCHANGED <<hand, holdemVars, deckVars, rankVars>>

EvalNext == CallEvaluateHand \/ CallEvaluateHandV2

SpecEval == EvalInit /\ [][EvalNext]_vars

(***************************************************************************)
(* SpecHoldem: one call of texas_holdem_score.  The caller (main) passes   *)
(* two hole cards and five table cards dealt from a shuffled deck: any     *)
(* distinct cards.  Here they are drawn from the first HoldemDeckSize      *)
(* cards of HoldemCards, and the list passed holds 6, 7 or 8 of them.      *)
(***************************************************************************)
HoldemDeckSize == 15

HoldemCards ==
    << <<14, "c">>, <<2, "c">>, <<3, "c">>, <<4, "c">>, <<5, "c">>, <<6, "c">>,
       <<14, "h">>, <<14, "s">>, <<14, "d">>, <<13, "c">>, <<13, "h">>,
       <<2, "d">>, <<6, "h">>, <<9, "d">>, <<11, "s">>, <<5, "h">>, <<3, "s">>,
       <<13, "s">>, <<10, "c">>, <<12, "c">>, <<9, "h">>, <<4, "d">> >>

HoldemDeck ==
    SubSeq(HoldemCards, 1,
           IF HoldemDeckSize < Len(HoldemCards) THEN HoldemDeckSize
           ELSE Len(HoldemCards))

HoldemInputs ==
    UNION {SetOf(combinations(HoldemDeck, n)) : n \in 6..8}

HoldemInit ==
    /\ seven_cards \in HoldemInputs
    /\ score = None
    /\ EvalIdle /\ DeckIdle /\ RankIdle

Score ==
    /\ score = None
    /\ score' = texas_holdem_score(seven_cards)
    /\ UNCHANGED <<seven_cards, evalVars, deckVars, rankVars>>

HoldemNext == Score

SpecHoldem == HoldemInit /\ [][HoldemNext]_vars

(***************************************************************************)
(* The reference order of the specification (sections 3 and 4.1): a        *)
(* category from the 13-bucket rank histogram, in the precedence of the    *)
(* decision tree, and the category's tiebreak, compared element-wise.      *)
(***************************************************************************)
Mult(h, r) == Cardinality({k \in DOMAIN h : h[k][1] = r})

RanksWith(h, m) == {r \in 2..14 : Mult(h, r) = m}

RECURSIVE Descending(_)
Descending(S) ==
    IF S = {} THEN <<>>
    ELSE LET m == MaxOf(S) IN <<m>> \o Descending(S \ {m})

Wheel == {14, 2, 3, 4, 5}

RefFlush(h) == \A j, k \in DOMAIN h : h[j][2] = h[k][2]

IsStraightSet(S) ==
    Cardinality(S) = 5 /\ (S = Wheel \/ \E lo \in 2..10 : S = lo..(lo + 4))

RefStraight(h) == IsStraightSet(RanksWith(h, 1))

\* <<category, tiebreak>> of a 5-card hand.  g[m] is the set of the ranks of
\* multiplicity m.  The tiebreaks [quad, kicker], [trips, pair], five ranks,
\* [trips, k_hi, k_lo], [high_pair, low_pair, kicker], [pair, k1, k2, k3] are
\* the groups by falling multiplicity, each in falling rank; a straight has
\* its high card alone, 5 for the wheel.
Ref(h) ==
    LET held == SetOf(RanksOf(h))
        g == [m \in 1..4 |-> {r \in held : Mult(h, r) = m}]
        flush == RefFlush(h)
        straight == IsStraightSet(g[1])
        high == IF g[1] = Wheel THEN 5 ELSE MaxOf(g[1])
        groups == Descending(g[4]) \o Descending(g[3])
                  \o Descending(g[2]) \o Descending(g[1])
    IN  IF flush /\ straight /\ high = 14 THEN <<10, <<>>>>
        ELSE IF flush /\ straight THEN <<9, <<high>>>>
        ELSE IF g[4] # {} THEN <<8, groups>>
        ELSE IF g[3] # {} /\ g[2] # {} THEN <<7, groups>>
        ELSE IF flush THEN <<6, groups>>
        ELSE IF straight THEN <<5, <<high>>>>
        ELSE IF g[3] # {} THEN <<4, groups>>
        ELSE IF Cardinality(g[2]) = 2 THEN <<3, groups>>
        ELSE IF Cardinality(g[2]) = 1 THEN <<2, groups>>
        ELSE <<1, groups>>

RefCategory(h) == Ref(h)[1]

\* a is strictly stronger than b
RefStronger(a, b) == a[1] > b[1] \/ (a[1] = b[1] /\ ListLess(b[2], a[2]))

(***************************************************************************)
(* Claims about the classifiers (SpecEval).                                *)
(***************************************************************************)
ComparedHands == HandsOfLen(5)

ComparedResults ==
    [k \in 1..Len(ComparedHands) |-> evaluate_hand_v2(ComparedHands[k])]

ComparedRefs == [k \in 1..Len(ComparedHands) |-> Ref(ComparedHands[k])]

V2Evaluated == callee = "pokercombos.evaluate_hand" /\ Len(hand) = 5

OldEvaluated == callee = "poker.evaluate_hand" /\ Len(hand) = 5

\* C2: for 5-card hands H1 (the hand evaluated) and H2 (every compared hand),
\* evaluate_hand(H1) < evaluate_hand(H2) as Python tuples exactly when H1 is
\* strictly stronger than H2 in the reference order, and the tuples are equal
\* exactly when category and tiebreak are equal.
C2_KeyOrderIsReferenceOrder ==
    V2Evaluated =>
        /\ result.exc = "none"
        /\ LET mine == Ref(hand)
           IN  \A k \in DOMAIN ComparedHands :
                   /\ ComparedResults[k].exc = "none"
                   /\ KeyLess(result.key, ComparedResults[k].key)
                          <=> RefStronger(mine, ComparedRefs[k])
                   /\ (result.key = ComparedResults[k].key)
                          <=> (mine = ComparedRefs[k])

C2_Witness ==
    /\ V2Evaluated
    /\ result.exc = "none"
    /\ result.key[1] = 8
    /\ \E k \in DOMAIN ComparedHands :
           /\ ComparedRefs[k][1] = 1
           /\ ComparedRefs[k][2][1] > MaxOf(SetOf(RanksOf(hand)))
           /\ ComparedResults[k].exc = "none"
           /\ KeyLess(result.key, ComparedResults[k].key)

WheelMixed ==
    Len(hand) = 5 /\ SetOf(RanksOf(hand)) = Wheel /\ ~RefFlush(hand)

OtherStraight(h) == RefStraight(h) /\ RanksWith(h, 1) # Wheel

\* C3: a hand with ranks {14,2,3,4,5} and suits not all equal classifies as
\* Straight, with straight-high 5 in the evaluation tuple, and ranks strictly
\* below every other straight (the 6-high ones among them).
C3_WheelIsFiveHighStraight ==
    WheelMixed =>
        /\ callee = "pokercombos.evaluate_hand" =>
               /\ result = Key(5, <<0 - 5>>)
               /\ \A k \in DOMAIN ComparedHands :
                      OtherStraight(ComparedHands[k]) =>
                          /\ ComparedResults[k].exc = "none"
                          /\ KeyLess(ComparedResults[k].key, result.key)
        /\ callee = "poker.evaluate_hand" =>
               /\ result.exc = "none"
               /\ result.hand_type = "ST"
               /\ result.hand_rank = 5

C3_Witness ==
    /\ WheelMixed
    /\ callee = "pokercombos.evaluate_hand"
    /\ result.exc = "none"
    /\ result.key[1] = 5
    /\ \E k \in DOMAIN ComparedHands :
           /\ RanksWith(ComparedHands[k], 1) = 2..6
           /\ ComparedResults[k].exc = "none"
           /\ ComparedResults[k].key[1] = 5

RoyalRanks == Len(hand) = 5 /\ SetOf(RanksOf(hand)) = 10..14

IsRoyalFlushResult ==
    /\ result.exc = "none"
    /\ callee = "poker.evaluate_hand" =>
           result.hand_type = "RF" /\ result.hand_rank = 10
    /\ callee = "pokercombos.evaluate_hand" => result.key = <<0, <<>>>>

IsHighCardResult ==
    /\ result.exc = "none"
    /\ callee = "poker.evaluate_hand" =>
           result.hand_type = "HC" /\ result.hand_rank = 1
    /\ callee = "pokercombos.evaluate_hand" => result.key[1] = 9

IsAceHighStraightResult ==
    /\ result.exc = "none"
    /\ callee = "poker.evaluate_hand" =>
           result.hand_type = "ST" /\ result.hand_rank = 5
    /\ callee = "pokercombos.evaluate_hand" => result.key = <<5, <<0 - 14>>>>

\* C4 as stated: ranks {10,11,12,13,14} classify as RoyalFlush when the five
\* suits are the same and as HighCard when the suits are mixed.
C4_RoyalMixedIsHighCard ==
    (RoyalRanks /\ callee # "none") =>
        IF RefFlush(hand) THEN IsRoyalFlushResult ELSE IsHighCardResult

\* C4 amended: ranks {10,11,12,13,14} classify as RoyalFlush when the five
\* suits are the same and as Straight (ace-high) when the suits are mixed.
C4_RoyalMixedIsStraight ==
    (RoyalRanks /\ callee # "none") =>
        IF RefFlush(hand) THEN IsRoyalFlushResult ELSE IsAceHighStraightResult

C4_Witness ==
    /\ RoyalRanks
    /\ ~RefFlush(hand)
    /\ callee = "pokercombos.evaluate_hand"
    /\ result.exc = "none"
    /\ result.key[1] = 5

\* C6: a classifier called with a number of cards other than 5 fails with
\* InvalidHandSize and returns no category.
C6_WrongSizeIsRejected ==
    (callee # "none" /\ Len(hand) # 5) => result.exc = "InvalidHandSize"

(***************************************************************************)
(* Claims about texas_holdem_score (SpecHoldem).                           *)
(***************************************************************************)
Scored == score # None

SevenScored == Scored /\ Len(seven_cards) = 7

FiveCardSubsets == SetOf(combinations(seven_cards, 5))

CategoryNames ==
    <<"HC", "PR", "2P", "3K", "ST", "FL", "FH", "4k", "SF", "RF">>

\* the reference <<category, tiebreak>> of every 5-card subset of the input
SubsetRefs == [c \in FiveCardSubsets |-> Ref(c)]

\* the returned hand is a 5-card subset of the input, its category is the one
\* returned, and no 5-card subset is strictly stronger in the reference order
BestIsMaximal(refs) ==
    /\ score.best_cards \in DOMAIN refs
    /\ score.hand_rank = refs[score.best_cards][1]
    /\ score.hand_type = CategoryNames[score.hand_rank]
    /\ \A c \in DOMAIN refs : ~RefStronger(refs[c], refs[score.best_cards])

\* C1: for 7 distinct cards texas_holdem_score returns the category and the
\* cards of a 5-card subset that no other 5-card subset of the input beats in
\* the reference order (category, then tiebreak, the wheel being 5-high).
C1_BestHandIsMaximal ==
    SevenScored => (score.exc = "none" /\ BestIsMaximal(SubsetRefs))

\* C7: with a number of cards other than 7 the call raises ValueError before
\* any subset is classified and returns no hand; with 7 it does not raise.
C7_SevenCardsOrValueError ==
    Scored =>
        IF Len(seven_cards) # 7
        THEN /\ score.exc = "ValueError"
             /\ score.classified = 0
             /\ score.hand_type = "" /\ score.best_cards = <<>>
        ELSE /\ score.exc = "none"
             /\ score.classified = 21

C7_Witness ==
    Scored /\ Len(seven_cards) = 8 /\ score.exc = "ValueError"

Reorderings == {<<7, 6, 5, 4, 3, 2, 1>>, <<4, 1, 6, 3, 7, 2, 5>>}

Arranged(cs, p) == [k \in 1..Len(cs) |-> cs[p[k]]]

SameHand(a, b) ==
    /\ a.exc = b.exc
    /\ a.hand_type = b.hand_type
    /\ a.hand_rank = b.hand_rank
    /\ sorted_desc(RanksOf(a.best_cards)) = sorted_desc(RanksOf(b.best_cards))

\* C8: the same 7 cards passed in another order give the same category and
\* the same ranks in the returned hand.
C8_OrderOfCardsDoesNotMatter ==
    SevenScored =>
        \A p \in Reorderings :
            SameHand(score, texas_holdem_score(Arranged(seven_cards, p)))

\* another order returns other cards: a tied winner
C8_Witness ==
    /\ SevenScored
    /\ \E p \in Reorderings :
           SetOf(texas_holdem_score(Arranged(seven_cards, p)).best_cards)
               # SetOf(score.best_cards)

HasAllSix == {14, 2, 3, 4, 5, 6} \subseteq SetOf(RanksOf(seven_cards))

\* the winner of the code's own comparison: category, then the five ranks in
\* falling order compared as lists
BestByRanks(refs) ==
    LET best == sorted_desc(RanksOf(score.best_cards))
    IN  \A c \in DOMAIN refs :
            /\ refs[c][1] <= score.hand_rank
            /\ refs[c][1] = score.hand_rank =>
                   ~ListLess(best, sorted_desc(RanksOf(c)))

\* a wheel and a higher straight, both of the winning category
WheelCompetes(refs) ==
    /\ score.hand_rank \in {5, 9}
    /\ \E a, b \in DOMAIN refs :
           /\ refs[a] = <<score.hand_rank, <<5>>>>
           /\ refs[b][1] = score.hand_rank /\ refs[b][2][1] > 5

\* C9: the call picks the winner by category and then by the falling ranks
\* of the five cards; for 7 cards that do not hold all of A,2,3,4,5,6 this is
\* a winner of the reference order, and where it is not, a wheel competes
\* with a higher straight or straight flush.
C9_RankOrderAgreesOffTheWheel ==
    SevenScored =>
        LET refs == SubsetRefs
            maximal == BestIsMaximal(refs)
        IN  /\ score.exc = "none"
            /\ BestByRanks(refs)
            /\ ~HasAllSix => maximal
            /\ ~maximal => WheelCompetes(refs)

\* two full houses in the input, none of the six ranks missing being needed
C9_Witness ==
    /\ SevenScored
    /\ ~HasAllSix
    /\ score.hand_rank = 7
    /\ \E c \in FiveCardSubsets :
           RefCategory(c) = 7 /\ Ref(c) # Ref(score.best_cards)

(***************************************************************************)
(* Deck (the same class in both programs; pokercombos.py has one           *)
(* deal_turn_river where poker.py has deal_turn and deal_river).  A deck   *)
(* object is the record of its two lists; a call gives the deck after it,  *)
(* the exception raised ("none" when it returns) and the value returned.   *)
(***************************************************************************)
DeckSize == 5

\* reset's list, cut to the first DeckSize cards
new_cards ==
    SubSeq(full_deck, 1, IF DeckSize < Len(full_deck) THEN DeckSize ELSE Len(full_deck))

\* faulty variant: the card popped and not recorded
TakeTop_Lost(d) ==
    [cards |-> SubSeq(d.cards, 1, Len(d.cards) - 1), dealt_cards |-> d.dealt_cards]

\* card = self.cards.pop(); self.dealt_cards.append(card)
TakeTop(d) ==
    [cards |-> SubSeq(d.cards, 1, Len(d.cards) - 1),
     dealt_cards |-> Append(d.dealt_cards, d.cards[Len(d.cards)])]

deal_card(d) ==
    IF d.cards = <<>>
    THEN [deck |-> d, exc |-> "ValueError", val |-> "None"]
    ELSE [deck |-> TakeTop(d), exc |-> "none", val |-> d.cards[Len(d.cards)]]

burn_card(d) ==
    IF d.cards # <<>>
    THEN [deck |-> TakeTop(d), exc |-> "none", val |-> d.cards[Len(d.cards)]]
    ELSE [deck |-> d, exc |-> "none", val |-> "None"]

\* [self.deal_card() for _ in range(n)], out being the list built so far
RECURSIVE DealList(_, _, _)
DealList(d, n, out) ==
    IF n = 0 THEN [deck |-> d, exc |-> "none", val |-> out]
    ELSE LET r == deal_card(d)
         IN  IF r.exc # "none" THEN r
             ELSE DealList(r.deck, n - 1, Append(out, r.val))

deal_hand(d, num_cards) == DealList(d, num_cards, <<>>)

deal_flop(d) == DealList(burn_card(d).deck, 3, <<>>)

deal_turn(d) == deal_card(burn_card(d).deck)

deal_river(d) == deal_card(burn_card(d).deck)

deal_turn_river(d) == deal_card(burn_card(d).deck)

\* random.shuffle(self.cards): any order of the list
Shuffles(cs) ==
    {[k \in 1..Len(cs) |-> cs[p[k]]] : p \in Permutations(1..Len(cs))}

(***************************************************************************)
(* SpecDeck: a Deck object and the calls made on it.                       *)
(***************************************************************************)
HandSizes == 0..3

TheDeck == [cards |-> cards, dealt_cards |-> dealt_cards]

Called(op, r) ==
    /\ cards' = r.deck.cards
    /\ dealt_cards' = r.deck.dealt_cards
    /\ deck_ret' = [op |-> op, exc |-> r.exc, val |-> r.val]
    /\ UNCHANGED <<evalVars, holdemVars, rankVars>>

DeckInit ==
    /\ cards = new_cards
    /\ dealt_cards = <<>>
    /\ deck_ret = None
    /\ EvalIdle /\ HoldemIdle /\ RankIdle

Reset ==
    Called("reset", [deck |-> [cards |-> new_cards, dealt_cards |-> <<>>],
                     exc |-> "none", val |-> "None"])

Shuffle ==
    \E cs \in Shuffles(cards) :
        Called("shuffle", [deck |-> [cards |-> cs, dealt_cards |-> dealt_cards],
                           exc |-> "none", val |-> "self"])

DealCard == Called("deal_card", deal_card(TheDeck))

DealHand == \E n \in HandSizes : Called("deal_hand", deal_hand(TheDeck, n))

DealFlop == Called("deal_flop", deal_flop(TheDeck))

DealTurn == Called("deal_turn", deal_turn(TheDeck))

DealRiver == Called("deal_river", deal_river(TheDeck))

DealTurnRiver == Called("deal_turn_river", deal_turn_river(TheDeck))

BurnCard == Called("burn_card", burn_card(TheDeck))

DeckNext ==
    \/ Reset \/ Shuffle \/ DealCard \/ DealHand \/ DealFlop
    \/ DealTurn \/ DealRiver \/ DealTurnRiver \/ BurnCard

SpecDeck == DeckInit /\ [][DeckNext]_vars

\* cards followed by dealt_cards is a permutation of the deck
Conserved ==
    LET all == cards \o dealt_cards
    IN  /\ Len(all) = Len(new_cards)
        /\ SetOf(all) = SetOf(new_cards)
        /\ Cardinality(SetOf(all)) = Len(all)

TopMoved ==
    /\ cards' = SubSeq(cards, 1, Len(cards) - 1)
    /\ dealt_cards' = Append(dealt_cards, cards[Len(cards)])
    /\ deck_ret'.exc = "none"
    /\ deck_ret'.val = cards[Len(cards)]

\* a step that is a call of deal_card or of burn_card
DealOrBurnStep ==
    /\ deck_ret'.op = "deal_card" =>
           IF cards = <<>>
           THEN deck_ret'.exc = "ValueError" /\ UNCHANGED <<cards, dealt_cards>>
           ELSE TopMoved
    /\ deck_ret'.op = "burn_card" =>
           IF cards = <<>>
           THEN /\ deck_ret'.exc = "none" /\ deck_ret'.val = "None"
                /\ UNCHANGED <<cards, dealt_cards>>
           ELSE TopMoved

\* C10: over every call (the failing ones too) cards followed by dealt_cards
\* stays a permutation of the deck's distinct cards; deal_card on an empty
\* deck raises ValueError and burn_card on an empty deck returns None, both
\* changing nothing; a deal or burn that succeeds moves the last card of
\* cards to the end of dealt_cards.
C10_CardsAreConserved ==
    [][Conserved /\ Conserved' /\ DealOrBurnStep]_vars

C10_Witness ==
    /\ deck_ret # None
    /\ deck_ret.op = "deal_card"
    /\ deck_ret.exc = "ValueError"
    /\ cards = <<>>
    /\ Len(dealt_cards) = Len(new_cards)

(***************************************************************************)
(* pokercombos.py: formatted_card and the module-level script              *)
(***************************************************************************)
rank_map == (10 :> "T") @@ (11 :> "J") @@ (12 :> "Q") @@ (13 :> "K") @@ (14 :> "A")

formatted_card(card) ==
    (IF card[1] \in DOMAIN rank_map THEN rank_map[card[1]] ELSE ToString(card[1]))
        \o card[2]

\* ' '.join(parts)
RECURSIVE JoinWithSpaces(_)
JoinWithSpaces(parts) ==
    IF parts = <<>> THEN ""
    ELSE IF Len(parts) = 1 THEN parts[1]
    ELSE parts[1] \o " " \o JoinWithSpaces(Tail(parts))

\* list.sort(key=lambda x: x[1]) is stable: an element goes behind the ones
\* whose key is not greater
RECURSIVE InsertByEvaluation(_, _)
InsertByEvaluation(x, s) ==
    IF s = <<>> THEN <<x>>
    ELSE IF KeyLess(x[2], Head(s)[2]) THEN <<x>> \o s
    ELSE <<Head(s)>> \o InsertByEvaluation(x, Tail(s))

RECURSIVE SortByEvaluation(_)
SortByEvaluation(s) ==
    IF s = <<>> THEN <<>>
    ELSE InsertByEvaluation(s[Len(s)], SortByEvaluation(SubSeq(s, 1, Len(s) - 1)))

\* faulty variant: the rank counts the tie groups (1-2-2-3)
RankOfRow_Dense(evaluation, prev, index, rank) ==
    IF evaluation # prev THEN (IF prev = None THEN 1 ELSE rank + 1) ELSE rank

\* lines 187-188, index being enumerate's i
RankOfRow(evaluation, prev, index, rank) ==
    IF evaluation # prev THEN index + 1 ELSE rank

(***************************************************************************)
(* SpecRank: the script of pokercombos.py, lines 169-196, run on a deck of *)
(* RankDeckSize cards: any RankDeckSize of the cards of RankUniverse, in   *)
(* the order Deck() lists them.                                            *)
(***************************************************************************)
RankDeckSize == 7

InRankUniverse(card) == card[1] \in {2, 3, 4, 5, 6, 14} /\ card[2] \in {"c", "h"}

RankUniverse == SelectSeq(full_deck, InRankUniverse)

RankInit ==
    /\ cards \in SetOf(combinations(RankUniverse, RankDeckSize))
    /\ dealt_cards = <<>>
    /\ deck_ret = None
    /\ pc = "enumerate"
    /\ hand_evaluations = <<>>
    /\ i = 0
    /\ current_rank = 0
    /\ prev_evaluation = None
    /\ df_data = <<>>
    /\ EvalIdle /\ HoldemIdle

\* lines 170-183: all hands evaluated and sorted, the loop's variables set
EvaluateAndSort ==
    /\ pc = "enumerate"
    /\ LET all_hands == combinations(cards, 5)
           evaluated == [k \in 1..Len(all_hands) |-> evaluate_hand_v2(all_hands[k])]
       IN  IF \E k \in DOMAIN evaluated : evaluated[k].exc # "none"
           THEN pc' = "raised" /\ hand_evaluations' = <<>>
           ELSE /\ pc' = "loop"
                /\ hand_evaluations' =
                       SortByEvaluation([k \in 1..Len(all_hands) |->
                                            <<all_hands[k], evaluated[k].key>>])
    /\ i' = 0
    /\ current_rank' = 1
    /\ prev_evaluation' = None
    /\ df_data' = <<>>
    /\ UNCHANGED <<evalVars, holdemVars, deckVars>>

\* lines 185-196: one pass of the loop body; i is enumerate's index
LoopBody ==
    /\ pc = "loop"
    /\ i < Len(hand_evaluations)
    /\ LET h == hand_evaluations[i + 1][1]
           evaluation == hand_evaluations[i + 1][2]
           rank == RankOfRow(evaluation, prev_evaluation, i, current_rank)
       IN  /\ current_rank' = rank
           /\ df_data' = Append(df_data,
                  [Hand |-> JoinWithSpaces([k \in 1..Len(h) |-> formatted_card(h[k])]),
                   Type |-> get_hand_name(h),
                   Rank |-> rank])
           /\ prev_evaluation' = evaluation
    /\ i' = i + 1
    /\ UNCHANGED <<pc, hand_evaluations, evalVars, holdemVars, deckVars>>

\* the loop is left and df_data becomes the DataFrame
LoopEnd ==
    /\ pc = "loop"
    /\ i = Len(hand_evaluations)
    /\ pc' = "done"
    /\ UNCHANGED <<hand_evaluations, i, current_rank, prev_evaluation, df_data,
                   evalVars, holdemVars, deckVars>>

RankNext == EvaluateAndSort \/ LoopBody \/ LoopEnd

SpecRank == RankInit /\ [][RankNext]_vars

EvaluationAt(k) == hand_evaluations[k][2]

StrictlyBetter(k) ==
    {j \in DOMAIN hand_evaluations : KeyLess(EvaluationAt(j), EvaluationAt(k))}

\* C5: at every step of the loop and at its end, over the rows written so far:
\* the first row has Rank 1; rows of equal evaluation have equal Rank; a
\* row's Rank is 1 plus the number of hands of strictly better evaluation,
\* which is the sorted position of the first hand of its tie group; Rank
\* never falls along the rows.
C5_CompetitionRanks ==
    pc \in {"loop", "done"} =>
        /\ Len(df_data) = i
        /\ pc = "done" => i = Len(hand_evaluations)
        /\ df_data # <<>> => df_data[1].Rank = 1
        /\ \A k \in DOMAIN df_data :
               /\ df_data[k].Rank = 1 + Cardinality(StrictlyBetter(k))
               /\ df_data[k].Rank =
                      MinOf({j \in DOMAIN hand_evaluations :
                                EvaluationAt(j) = EvaluationAt(k)})
               /\ df_data[k].Type = hand_names[EvaluationAt(k)[1] + 1]
        /\ \A j, k \in DOMAIN df_data :
               EvaluationAt(j) = EvaluationAt(k) => df_data[j].Rank = df_data[k].Rank
        /\ \A k \in 2..Len(df_data) : df_data[k - 1].Rank <= df_data[k].Rank

\* a tie group behind the first row, and the rank after it skipping
C5_Witness ==
    /\ pc = "done"
    /\ \E k \in 2..(Len(df_data) - 1) :
           /\ df_data[k].Rank = df_data[k - 1].Rank
           /\ df_data[k].Rank > 1
           /\ df_data[k + 1].Rank = k + 1
           /\ df_data[k + 1].Rank > df_data[k].Rank + 1

====
